---- MODULE Spec2Model ----
(***************************************************************************)
(* A model of libchess.Position (src/libchess/position.py): the 0x88 board,*)
(* the FEN codec, the attack detector, the pseudo-legal generator, the     *)
(* legality filter, make_move, the terminal-state classifier, the setters  *)
(* of the counters and the standard algebraic notation of a move.          *)
(*                                                                         *)
(* Representation.  A Piece is a record [color, type]; Python's None is the*)
(* record None below (a piece is truthy, None is falsy).  A Square is      *)
(* represented by its 0x88 index (a8 = 0, h8 = 7, a1 = 112, h1 = 119), a   *)
(* Move by a record [source, target, promotion].  A str is a sequence of   *)
(* one-character strings, so that formatting and parsing are computed.     *)
(* A generator is the sequence of the values it yields, in order.          *)
(*                                                                         *)
(* Six specifications share the variables.  Spec plays games: a position   *)
(* is loaded, get_legal_moves is called and one of the moves it yielded is *)
(* given to make_move.  SpecMaterial puts pieces on a board that holds the *)
(* two kings and calls is_insufficient_material.  SpecFen gives one        *)
(* position FEN texts, valid and broken, through set_fen.  SpecCounters    *)
(* calls set_half_moves and set_move_number on loaded positions.           *)
(* SpecCastling calls get_pseudo_legal_moves on positions with kings and   *)
(* rooks at home and after each legal move from them.  SpecSan calls       *)
(* _get_disambiguator and get_move_info for the moves of positions where   *)
(* two like pieces reach one cell.                                         *)
(***************************************************************************)
EXTENDS Integers, Sequences, FiniteSets, TLC

VARIABLES
    board,        \* self._board: 128 cells, each a Piece or None; cell i is board[i + 1]
    turn,         \* self._turn: "w" or "b"
    castling,     \* self._castling: a str over K, Q, k, q
    ep_file,      \* self._ep_file: "a".."h" or NoneStr
    half_moves,   \* self._half_moves
    move_number,  \* self._move_number
    last,         \* the last operation called on the position and its outcome
    book,         \* which scripted game is being followed, and how far
    free          \* calls made so far that count against the bounds

vars == <<board, turn, castling, ep_file, half_moves, move_number, last, book, free>>

----------------------------------------------------------------------------
(* Values *)

None == [color |-> "", type |-> ""]
NoneStr == "None"

Piece(c, t) == [color |-> c, type |-> t]

Colors == {"w", "b"}
Types == {"p", "n", "b", "r", "q", "k"}
Files == <<"a", "b", "c", "d", "e", "f", "g", "h">>
Digits == <<"0", "1", "2", "3", "4", "5", "6", "7", "8", "9">>

opposite_color(c) == IF c = "w" THEN "b" ELSE "w"

\* Piece.from_symbol / Piece.get_symbol: upper case is white, lower case black.
SymbolTable ==
    << <<"P", "w", "p">>, <<"N", "w", "n">>, <<"B", "w", "b">>,
       <<"R", "w", "r">>, <<"Q", "w", "q">>, <<"K", "w", "k">>,
       <<"p", "b", "p">>, <<"n", "b", "n">>, <<"b", "b", "b">>,
       <<"r", "b", "r">>, <<"q", "b", "q">>, <<"k", "b", "k">> >>

from_symbol(s) ==
    LET e == CHOOSE e \in {SymbolTable[i] : i \in 1..12} : e[1] = s
    IN  Piece(e[2], e[3])

get_symbol(pc) ==
    LET e == CHOOSE e \in {SymbolTable[i] : i \in 1..12} : e[2] = pc.color /\ e[3] = pc.type
    IN  e[1]

\* type.upper() of a piece type or promotion letter
upper(t) == get_symbol(Piece("w", t))

----------------------------------------------------------------------------
(* Square, by 0x88 index *)

Index(x, y) == x + 16 * (7 - y)
get_x(sq) == sq % 8
get_y(sq) == 7 - (sq \div 16)
get_rank(sq) == get_y(sq) + 1
get_file(sq) == Files[get_x(sq) + 1]
is_backrank(sq) == get_y(sq) = 0 \/ get_y(sq) = 7
is_light(sq) == (get_x(sq) + get_y(sq)) % 2 = 1
from_name(f, r) == Index((CHOOSE i \in 1..8 : Files[i] = f) - 1, r - 1)

\* i & 0x88 # 0, on Python's unbounded two's-complement integers
OffBoard(i) == ((i % 256) \div 128) % 2 = 1 \/ ((i % 16) \div 8) % 2 = 1

\* Square.get_all(): files outermost, ranks innermost
AllSquares == [k \in 1..64 |-> Index((k - 1) \div 8, (k - 1) % 8)]

A1 == from_name("a", 1)
E1 == from_name("e", 1)
H1 == from_name("h", 1)
A8 == from_name("a", 8)
E8 == from_name("e", 8)
H8 == from_name("h", 8)

----------------------------------------------------------------------------
(* Position: the fields as one record, for the operators below *)

Position(b, t, c, e, h, n) ==
    [board |-> b, turn |-> t, castling |-> c, ep_file |-> e,
     half_moves |-> h, move_number |-> n]

Self == Position(board, turn, castling, ep_file, half_moves, move_number)

None8 == <<None, None, None, None, None, None, None, None>>
None16 == None8 \o None8

\* [None] * 128
EmptyBoard == None16 \o None16 \o None16 \o None16 \o None16 \o None16 \o None16 \o None16

\* Position.__init__
NewPosition == Position(EmptyBoard, "w", <<>>, NoneStr, 0, 1)

\* a cell read; a read outside the list finds nothing (no such read is made
\* from the positions explored here: no pawn stands on its last rank)
Cell(p, i) == IF i \in 0..127 THEN p.board[i + 1] ELSE None

get(p, sq) == Cell(p, sq)

InStr(c, s) == \E i \in 1..Len(s) : s[i] = c

get_castling_right(p, type) == InStr(type, p.castling)

get_theoretical_castling_right(p, type) ==
    IF type = "K" \/ type = "Q"
    THEN IF get(p, E1) # Piece("w", "k") THEN FALSE
         ELSE IF type = "K" THEN get(p, H1) = Piece("w", "r")
              ELSE get(p, A1) = Piece("w", "r")
    ELSE IF get(p, E8) # Piece("b", "k") THEN FALSE
         ELSE IF type = "k" THEN get(p, H8) = Piece("b", "r")
              ELSE get(p, A8) = Piece("b", "r")

CastlingTypes == <<"K", "Q", "k", "q">>

\* set_castling_right raises AssertionError when status and not theoretical
set_castling_right_raises(p, type, status) ==
    status /\ ~get_theoretical_castling_right(p, type)

\* set_castling_right, lines 301-308: the flags rebuilt in the order K, Q, k, q
set_castling_right(p, type, status) ==
    LET Keep(t) == IF type = t THEN status ELSE get_castling_right(p, t)
    IN  [p EXCEPT !.castling = SelectSeq(CastlingTypes, Keep)]

\* one turn of the loop "Update castling rights"
DropUntheoretical(p, type) ==
    IF ~get_theoretical_castling_right(p, type)
    THEN set_castling_right(p, type, FALSE)
    ELSE p

\* Statements in sequence: F applied to the value of x, x computed first
Then(x, F(_)) == CHOOSE r \in {F(v) : v \in {x}} : TRUE

\* "Update castling rights": the loop over K, Q, k, q closing set and set_fen
UpdateCastlingRights(p) ==
    LET DropK(q) == DropUntheoretical(q, "K")
        DropQ(q) == DropUntheoretical(q, "Q")
        Dropk(q) == DropUntheoretical(q, "k")
        Dropq(q) == DropUntheoretical(q, "q")
    IN  Then(Then(Then(Then(p, DropK), DropQ), Dropk), Dropq)

set(p, sq, pc) == UpdateCastlingRights([p EXCEPT !.board[sq + 1] = pc])

clear(p) == [p EXCEPT !.board = EmptyBoard, !.castling = <<>>]

toggle_turn(p) == [p EXCEPT !.turn = opposite_color(p.turn)]

\* set_half_moves: [raised, pos]; int() of an integer is that integer
set_half_moves(p, n) ==
    IF ~(n >= 0) THEN [raised |-> TRUE, pos |-> p]
    ELSE [raised |-> FALSE, pos |-> [p EXCEPT !.half_moves = n]]

get_move_number(p) == p.move_number

\* set_move_number: [raised, pos]; its body is "return self._move_number"
set_move_number(p, n) == [raised |-> FALSE, pos |-> p]

----------------------------------------------------------------------------
(* Moves *)

Move(s, t, pr) == [source |-> s, target |-> t, promotion |-> pr]

Abs(n) == IF n < 0 THEN -n ELSE n

\* self._board[i] = v written directly: a negative i counts from the end of
\* the list; an i past the end raises IndexError before anything is written
\* (no game played below makes such a write)
ListWrite(q, i, v) ==
    IF i \in 0..127 THEN [q EXCEPT !.board[i + 1] = v]
    ELSE IF i \in (0 - 128)..(0 - 1) THEN [q EXCEPT !.board[i + 129] = v]
    ELSE q

\* make_move, lines 180-183: the cell emptied by an en-passant capture.
\* q.turn is already the turn of the player who did not move.
EnPassantRemove(q, move) ==
    IF q.turn = "b"
    THEN ListWrite(q, move.target - 16, None)
    ELSE ListWrite(q, move.target + 16, None)

\* make_move, lines 176-191: the pawn part (en-passant removal, ep file).
\* q is the position after the piece was moved and the turn toggled.
MakeMovePawnPart(q, move, capture) ==
    IF get(q, move.target).type = "p"
    THEN LET enpassant == get_file(move.target) # get_file(move.source) /\ capture = None
             q1 == IF enpassant THEN EnPassantRemove(q, move) ELSE q
             q2 == IF Abs(get_rank(move.target) - get_rank(move.source)) = 2
                   THEN [q1 EXCEPT !.ep_file = get_file(move.target)]
                   ELSE [q1 EXCEPT !.ep_file = NoneStr]
         IN  [pos |-> q2, capture |-> enpassant \/ capture # None]
    ELSE [pos |-> [q EXCEPT !.ep_file = NoneStr], capture |-> capture # None]

\* make_move, lines 193-195
MakeMovePromotion(q, move) ==
    IF move.promotion # NoneStr
    THEN set(q, move.target, Piece(get(q, move.target).color, move.promotion))
    ELSE q

\* make_move, lines 197-210: the rook's part of castling
MakeMoveCastling(q, move) ==
    IF get(q, move.target).type = "k"
    THEN LET steps == get_x(move.target) - get_x(move.source)
         IN  IF Abs(steps) = 2
             THEN LET rook_target == IF steps = -2 THEN move.target + 1 ELSE move.target - 1
                      rook_source == IF steps = -2 THEN move.target - 2 ELSE move.target + 1
                  IN  [q EXCEPT !.board = [q.board EXCEPT ![rook_target + 1] = q.board[rook_source + 1],
                                                          ![rook_source + 1] = None]]
             ELSE q
    ELSE q

\* make_move, lines 212-218
MakeMoveHalfMoves(q, move, capture) ==
    IF get(q, move.target).type = "p" THEN [q EXCEPT !.half_moves = 0]
    ELSE IF capture THEN [q EXCEPT !.half_moves = 0]
    ELSE [q EXCEPT !.half_moves = q.half_moves + 1]

\* make_move, lines 220-222
MakeMoveNumber(q) ==
    IF q.turn = "w" THEN [q EXCEPT !.move_number = q.move_number + 1] ELSE q

make_move(p, move) ==
    LET capture == get(p, move.target)
        piece == get(p, move.source)
        Moved(q) == set(q, move.target, piece)
        Vacated(q) == set(q, move.source, None)
        PawnPart(q) == MakeMovePawnPart(q, move, capture)
        Promoted(r) == [r EXCEPT !.pos = MakeMovePromotion(r.pos, move)]
        Castled(r) == [r EXCEPT !.pos = MakeMoveCastling(r.pos, move)]
        Counted(r) == MakeMoveHalfMoves(r.pos, move, r.capture)
    IN  Then(Then(Then(Then(Then(Then(Then(Then(p,
            Moved), Vacated), toggle_turn), PawnPart), Promoted), Castled),
            Counted), MakeMoveNumber)

----------------------------------------------------------------------------
(* Attack detector *)

\* get_attackers' tables, indexed from 0 in the source and from 1 here
ATTACKS ==
    <<
       20, 0, 0, 0, 0, 0, 0, 24, 0, 0, 0, 0, 0, 0, 20, 0,
       0, 20, 0, 0, 0, 0, 0, 24, 0, 0, 0, 0, 0, 20, 0, 0,
       0, 0, 20, 0, 0, 0, 0, 24, 0, 0, 0, 0, 20, 0, 0, 0,
       0, 0, 0, 20, 0, 0, 0, 24, 0, 0, 0, 20, 0, 0, 0, 0,
       0, 0, 0, 0, 20, 0, 0, 24, 0, 0, 20, 0, 0, 0, 0, 0,
       0, 0, 0, 0, 0, 20, 2, 24, 2, 20, 0, 0, 0, 0, 0, 0,
       0, 0, 0, 0, 0, 2, 53, 56, 53, 2, 0, 0, 0, 0, 0, 0,
       24, 24, 24, 24, 24, 24, 56, 0, 56, 24, 24, 24, 24, 24, 24, 0,
       0, 0, 0, 0, 0, 2, 53, 56, 53, 2, 0, 0, 0, 0, 0, 0,
       0, 0, 0, 0, 0, 20, 2, 24, 2, 20, 0, 0, 0, 0, 0, 0,
       0, 0, 0, 0, 20, 0, 0, 24, 0, 0, 20, 0, 0, 0, 0, 0,
       0, 0, 0, 20, 0, 0, 0, 24, 0, 0, 0, 20, 0, 0, 0, 0,
       0, 0, 20, 0, 0, 0, 0, 24, 0, 0, 0, 0, 20, 0, 0, 0,
       0, 20, 0, 0, 0, 0, 0, 24, 0, 0, 0, 0, 0, 20, 0, 0,
       20, 0, 0, 0, 0, 0, 0, 24, 0, 0, 0, 0, 0, 0, 20 >>

RAYS ==
    <<
       17, 0, 0, 0, 0, 0, 0, 16, 0, 0, 0, 0, 0, 0, 15, 0,
       0, 17, 0, 0, 0, 0, 0, 16, 0, 0, 0, 0, 0, 15, 0, 0,
       0, 0, 17, 0, 0, 0, 0, 16, 0, 0, 0, 0, 15, 0, 0, 0,
       0, 0, 0, 17, 0, 0, 0, 16, 0, 0, 0, 15, 0, 0, 0, 0,
       0, 0, 0, 0, 17, 0, 0, 16, 0, 0, 15, 0, 0, 0, 0, 0,
       0, 0, 0, 0, 0, 17, 0, 16, 0, 15, 0, 0, 0, 0, 0, 0,
       0, 0, 0, 0, 0, 0, 17, 16, 15, 0, 0, 0, 0, 0, 0, 0,
       1, 1, 1, 1, 1, 1, 1, 0, -1, -1, -1, -1, -1, -1, -1, 0,
       0, 0, 0, 0, 0, 0, -15, -16, -17, 0, 0, 0, 0, 0, 0, 0,
       0, 0, 0, 0, 0, -15, 0, -16, 0, -17, 0, 0, 0, 0, 0, 0,
       0, 0, 0, 0, -15, 0, 0, -16, 0, 0, -17, 0, 0, 0, 0, 0,
       0, 0, 0, -15, 0, 0, 0, -16, 0, 0, 0, -17, 0, 0, 0, 0,
       0, 0, -15, 0, 0, 0, 0, -16, 0, 0, 0, 0, -17, 0, 0, 0,
       0, -15, 0, 0, 0, 0, 0, -16, 0, 0, 0, 0, 0, -17, 0, 0,
       -15, 0, 0, 0, 0, 0, 0, -16, 0, 0, 0, 0, 0, 0, -17 >>

SHIFTS(t) ==
    CASE t = "p" -> 0 [] t = "n" -> 1 [] t = "b" -> 2
      [] t = "r" -> 3 [] t = "q" -> 4 [] t = "k" -> 5

RECURSIVE Pow2(_)
Pow2(n) == IF n = 0 THEN 1 ELSE 2 * Pow2(n - 1)

\* ATTACKS[index] & (1 << SHIFTS[type]) is non-zero
AttackBit(index, t) == (ATTACKS[index + 1] \div Pow2(SHIFTS(t))) % 2 = 1

\* the ray walk of get_attackers, lines 767-773: blocked iff an occupied cell
\* is met before j reaches the target square
RECURSIVE RayBlocked(_, _, _, _)
RayBlocked(p, j, offset, square) ==
    IF j = square THEN FALSE
    ELSE IF p.board[j + 1] # None THEN TRUE
    ELSE RayBlocked(p, j + offset, offset, square)

\* what one source square yields in get_attackers (lines 743-775)
AttackerYields(p, color, square, source) ==
    LET piece == get(p, source)
        difference == source - square
        index == difference + 119
    IN  IF piece = None \/ piece.color # color THEN <<>>
        ELSE IF ~AttackBit(index, piece.type) THEN <<>>
        ELSE IF piece.type = "p"
             THEN IF difference > 0
                  THEN IF piece.color = "w" THEN <<source>> ELSE <<>>
                  ELSE IF piece.color = "b" THEN <<source>> ELSE <<>>
             ELSE (IF piece.type \in {"n", "k"} THEN <<source>> ELSE <<>>)
                  \o (IF ~RayBlocked(p, source + RAYS[index + 1], RAYS[index + 1], square)
                      THEN <<source>> ELSE <<>>)

\* "for source in libchess.Square.get_all()": what the squares lo..hi of
\* get_all yield, in order
RECURSIVE AttackersFrom(_, _, _, _, _)
AttackersFrom(p, color, square, lo, hi) ==
    IF lo = hi THEN AttackerYields(p, color, square, AllSquares[lo])
    ELSE LET mid == (lo + hi) \div 2
         IN  AttackersFrom(p, color, square, lo, mid)
             \o AttackersFrom(p, color, square, mid + 1, hi)

get_attackers(p, color, square) == AttackersFrom(p, color, square, 1, 64)

\* is_attacked: the generator yields at least once
is_attacked(p, color, square) == \E k \in 1..64 :
    AttackerYields(p, color, square, AllSquares[k]) # <<>>

\* get_king: the first square of get_all holding that king, or NoSquare
NoSquare == 0 - 1

KingSquares(p, color) ==
    {k \in 1..64 : get(p, AllSquares[k]) = Piece(color, "k")}

get_king(p, color) ==
    IF KingSquares(p, color) = {} THEN NoSquare
    ELSE AllSquares[CHOOSE k \in KingSquares(p, color) :
                        \A j \in KingSquares(p, color) : k <= j]

is_king_attacked(p, color) ==
    LET square == get_king(p, color)
    IN  IF square # NoSquare
        THEN is_attacked(p, opposite_color(color), square)
        ELSE FALSE

is_check(p) == is_king_attacked(p, p.turn)

----------------------------------------------------------------------------
(* Text: str(int), int(str), split, join *)

DigitValue(c) == (CHOOSE d \in 1..10 : Digits[d] = c) - 1
IsDigit(c) == \E d \in 1..10 : Digits[d] = c

\* str(n) for an integer n
RECURSIVE StrNat(_)
StrNat(n) == IF n < 10 THEN <<Digits[n + 1]>> ELSE StrNat(n \div 10) \o <<Digits[(n % 10) + 1]>>

str(n) == IF n < 0 THEN <<"-">> \o StrNat(0 - n) ELSE StrNat(n)

\* int(s): an optional sign and at least one decimal digit, else ValueError
RECURSIVE NatOf(_, _)
NatOf(s, acc) == IF s = <<>> THEN acc ELSE NatOf(Tail(s), 10 * acc + DigitValue(Head(s)))

AllDigits(s) == s # <<>> /\ \A i \in 1..Len(s) : IsDigit(s[i])

int_raises(s) ==
    IF s # <<>> /\ Head(s) \in {"-", "+"} THEN ~AllDigits(Tail(s)) ELSE ~AllDigits(s)

int(s) ==
    IF Head(s) = "-" THEN 0 - NatOf(Tail(s), 0)
    ELSE IF Head(s) = "+" THEN NatOf(Tail(s), 0)
    ELSE NatOf(s, 0)

\* the k-th smallest member of a set of integers
Nth(S, k) == CHOOSE i \in S : Cardinality({j \in S : j < i}) = k - 1

\* s.split(): the maximal runs of non-blank characters, in order
split(s) ==
    LET starts == {i \in 1..Len(s) : s[i] # " " /\ (i = 1 \/ s[i - 1] = " ")}
        EndOf(i) == CHOOSE j \in i..Len(s) :
                        /\ \A k \in i..j : s[k] # " "
                        /\ (j = Len(s) \/ s[j + 1] = " ")
    IN  [k \in 1..Cardinality(starts) |-> SubSeq(s, Nth(starts, k), EndOf(Nth(starts, k)))]

\* s.split(sep): every separator ends a field, empty fields are kept
split_on(s, sep) ==
    LET seps == {i \in 1..Len(s) : s[i] = sep}
        n == Cardinality(seps)
        Start(k) == IF k = 1 THEN 1 ELSE Nth(seps, k - 1) + 1
        End(k) == IF k = n + 1 THEN Len(s) ELSE Nth(seps, k) - 1
    IN  [k \in 1..(n + 1) |-> SubSeq(s, Start(k), End(k))]

\* " ".join(parts)
RECURSIVE join(_)
join(parts) ==
    IF parts = <<>> THEN <<>>
    ELSE IF Len(parts) = 1 THEN parts[1]
    ELSE parts[1] \o <<" ">> \o join(Tail(parts))

----------------------------------------------------------------------------
(* FEN codec *)

\* get_fen, lines 419-428 and 431-432: one rank, files a to h
RECURSIVE RowText(_, _, _, _)
RowText(p, y, x, empty) ==
    IF x > 7 THEN (IF empty > 0 THEN str(empty) ELSE <<>>)
    ELSE IF p.board[Index(x, y) + 1] = None THEN RowText(p, y, x + 1, empty + 1)
    ELSE (IF empty > 0 THEN str(empty) ELSE <<>>)
         \o <<get_symbol(p.board[Index(x, y) + 1])>> \o RowText(p, y, x + 1, 0)

\* get_fen, lines 418-435: ranks 8 down to 1, "/" after all but the last
RECURSIVE BoardText(_, _)
BoardText(p, y) ==
    RowText(p, y, 0, 0)
    \o (IF y = 0 THEN <<>> ELSE <<"/">> \o BoardText(p, y - 1))

CastlingFlag(p) == IF p.castling # <<>> THEN p.castling ELSE <<"-">>

EpFlag(p) ==
    IF p.ep_file # NoneStr
    THEN <<p.ep_file, IF p.turn = "w" THEN "6" ELSE "3">>
    ELSE <<"-">>

get_fen(p) ==
    join(<<BoardText(p, 7), <<p.turn>>, CastlingFlag(p), EpFlag(p),
           str(p.half_moves), str(p.move_number)>>)

RowChars == {"1", "2", "3", "4", "5", "6", "7", "8",
             "p", "n", "b", "r", "k", "q", "P", "N", "B", "R", "K", "Q"}
RowDigits == {"1", "2", "3", "4", "5", "6", "7", "8"}

\* set_fen, lines 467-478: the assertions on one row hold
RECURSIVE RowValid(_, _, _)
RowValid(row, field_sum, previous_was_number) ==
    IF row = <<>> THEN field_sum = 8
    ELSE IF Head(row) \notin RowChars THEN FALSE
    ELSE IF Head(row) \in RowDigits
         THEN IF previous_was_number THEN FALSE
              ELSE RowValid(Tail(row), field_sum + DigitValue(Head(row)), TRUE)
         ELSE RowValid(Tail(row), field_sum + 1, FALSE)

\* re "^(KQ?k?q?|Qk?q?|kq?|q|-)$"
Opt(c, s) == IF s # <<>> /\ Head(s) = c THEN Tail(s) ELSE s

MatchCastling(s) ==
    \/ s # <<>> /\ Head(s) = "K" /\ Opt("q", Opt("k", Opt("Q", Tail(s)))) = <<>>
    \/ s # <<>> /\ Head(s) = "Q" /\ Opt("q", Opt("k", Tail(s))) = <<>>
    \/ s # <<>> /\ Head(s) = "k" /\ Opt("q", Tail(s)) = <<>>
    \/ s = <<"q">>
    \/ s = <<"-">>

\* re "^(-|[a-h][36])$"
MatchEp(s) ==
    \/ s = <<"-">>
    \/ Len(s) = 2 /\ (\E i \in 1..8 : Files[i] = s[1]) /\ s[2] \in {"3", "6"}

\* set_fen, lines 508-515: the loop over the symbols of the first field.
\* A digit d leaves d cells empty, a piece symbol fills one cell, and each
\* "/" adds 8 to i: the 8 cells of a row (its assertions having passed) are
\* followed by the 8 cells beside the board.
RECURSIVE RowCells(_)
RowCells(row) ==
    IF row = <<>> THEN <<>>
    ELSE (IF Head(row) \in RowDigits THEN SubSeq(None8, 1, DigitValue(Head(row)))
          ELSE <<from_symbol(Head(row))>>)
         \o RowCells(Tail(row))

Populate(rows) ==
    RowCells(rows[1]) \o None8 \o RowCells(rows[2]) \o None8
    \o RowCells(rows[3]) \o None8 \o RowCells(rows[4]) \o None8
    \o RowCells(rows[5]) \o None8 \o RowCells(rows[6]) \o None8
    \o RowCells(rows[7]) \o None8 \o RowCells(rows[8]) \o None8

\* set_fen, lines 460-483: some assertion before the counters fails
FenShapeRaises(tokens) ==
    \/ Len(tokens) # 6
    \/ LET rows == split_on(tokens[1], "/")
       IN  \/ Len(rows) # 8
           \/ \E r \in 1..Len(rows) : ~RowValid(rows[r], 0, FALSE)
    \/ tokens[2] \notin {<<"w">>, <<"b">>}
    \/ ~MatchCastling(tokens[3])
    \/ ~MatchEp(tokens[4])

\* set_fen, lines 490-523: the assignments made once every assertion passed
FenAssign(p, tokens) ==
    LET q == [board |-> Populate(split_on(tokens[1], "/")),
              turn |-> tokens[2][1],
              castling |-> IF tokens[3] = <<"-">> THEN <<>> ELSE tokens[3],
              ep_file |-> IF tokens[4] = <<"-">> THEN NoneStr ELSE tokens[4][1],
              half_moves |-> int(tokens[5]),
              move_number |-> int(tokens[6])]
    IN  UpdateCastlingRights(q)

\* set_fen with the halfmove clock stored as soon as it is read, before the
\* move number is looked at
set_fen_storing_early(p, fen) ==
    LET tokens == split(fen)
        stored == [p EXCEPT !.half_moves = int(tokens[5])]
    IN  IF FenShapeRaises(tokens) THEN [raised |-> TRUE, pos |-> p]
        ELSE IF int_raises(tokens[5]) THEN [raised |-> TRUE, pos |-> p]
        ELSE IF ~(int(tokens[5]) >= 0) THEN [raised |-> TRUE, pos |-> p]
        ELSE IF int_raises(tokens[6]) THEN [raised |-> TRUE, pos |-> stored]
        ELSE IF ~(int(tokens[6]) >= 1) THEN [raised |-> TRUE, pos |-> stored]
        ELSE [raised |-> FALSE, pos |-> FenAssign(p, tokens)]

\* set_fen: [raised, pos].  Every assertion (and int's ValueError) comes
\* before the first assignment, so a raise leaves the position as it was.
set_fen(p, fen) ==
    LET tokens == split(fen)
    IN  IF FenShapeRaises(tokens) THEN [raised |-> TRUE, pos |-> p]
        ELSE IF int_raises(tokens[5]) THEN [raised |-> TRUE, pos |-> p]
        ELSE IF ~(int(tokens[5]) >= 0) THEN [raised |-> TRUE, pos |-> p]
        ELSE IF int_raises(tokens[6]) THEN [raised |-> TRUE, pos |-> p]
        ELSE IF ~(int(tokens[6]) >= 1) THEN [raised |-> TRUE, pos |-> p]
        ELSE [raised |-> FALSE, pos |-> FenAssign(p, tokens)]

\* Position.from_fen
from_fen(fen) == set_fen(NewPosition, fen).pos

\* Position.copy: get_fen returns its text, then from_fen reads it
copy(p) == CHOOSE q \in {from_fen(fen) : fen \in {get_fen(p)}} : TRUE

StartFen ==
    <<"r","n","b","q","k","b","n","r","/","p","p","p","p","p","p","p","p","/",
      "8","/","8","/","8","/","8","/",
      "P","P","P","P","P","P","P","P","/","R","N","B","Q","K","B","N","R",
      " ","w"," ","K","Q","k","q"," ","-"," ","0"," ","1">>

\* Position.reset
reset(p) == set_fen(p, StartFen).pos

----------------------------------------------------------------------------
(* Pseudo-legal generator *)

PAWN_OFFSETS(c) == IF c = "b" THEN <<16, 32, 16, 15>> ELSE <<0 - 16, 0 - 32, 0 - 17, 0 - 15>>

PIECE_OFFSETS(t) ==
    CASE t = "n" -> <<0 - 18, 0 - 33, 0 - 31, 0 - 14, 18, 33, 31, 14>>
      [] t = "b" -> <<0 - 17, 0 - 15, 17, 15>>
      [] t = "r" -> <<0 - 16, 1, 16, 0 - 1>>
      [] t = "q" -> <<0 - 17, 0 - 16, 0 - 15, 1, 17, 16, 15, 0 - 1>>
      [] t = "k" -> <<0 - 17, 0 - 16, 0 - 15, 1, 17, 16, 15, 0 - 1>>

\* for promote_to in "bnrq"
Promotions(square, target) ==
    <<Move(square, target, "b"), Move(square, target, "n"),
      Move(square, target, "r"), Move(square, target, "q")>>

\* get_pseudo_legal_moves, line 614: the condition of the two-square advance
DoublePushCondition(p, square, target) ==
    \/ p.turn = "w" /\ get_rank(square) = 2
    \/ p.turn = "b" /\ get_rank(square) = 7 /\ get(p, target) = None

\* get_pseudo_legal_moves, lines 604-615: the moves straight ahead
PawnPushes(p, square) ==
    LET target == square + PAWN_OFFSETS(p.turn)[1]
        target2 == square + PAWN_OFFSETS(p.turn)[2]
    IN  IF get(p, target) = None
        THEN (IF is_backrank(target) THEN Promotions(square, target) ELSE <<>>)
             \o (IF DoublePushCondition(p, square, target2)
                 THEN <<Move(square, target2, NoneStr)>> ELSE <<>>)
        ELSE <<>>

\* get_pseudo_legal_moves, lines 619-632: one of "for j in [2, 3]"
PawnCapture(p, square, j) ==
    LET target == square + PAWN_OFFSETS(p.turn)[j + 1]
    IN  IF OffBoard(target) THEN <<>>
        ELSE IF get(p, target) # None /\ get(p, target).color # p.turn
             THEN IF is_backrank(target) THEN Promotions(square, target)
                  ELSE <<Move(square, target, NoneStr)>>
        ELSE IF get(p, target) = None /\ get_file(target) = p.ep_file
             THEN <<Move(square, target, NoneStr)>>
        ELSE <<>>

PawnMoves(p, square) ==
    PawnPushes(p, square) \o PawnCapture(p, square, 2) \o PawnCapture(p, square, 3)

\* get_pseudo_legal_moves, lines 636-653: the walk along one offset
RECURSIVE Walk(_, _, _, _, _)
Walk(p, square, type, offset, from) ==
    LET target == from + offset
    IN  IF OffBoard(target) THEN <<>>
        ELSE IF get(p, target) = None
             THEN <<Move(square, target, NoneStr)>>
                  \o (IF type \in {"n", "k"} THEN <<>>
                      ELSE Walk(p, square, type, offset, target))
        ELSE IF get(p, target).color = p.turn THEN <<>>
        ELSE <<Move(square, target, NoneStr)>>

RECURSIVE WalkAll(_, _, _, _)
WalkAll(p, square, type, k) ==
    IF k > Len(PIECE_OFFSETS(type)) THEN <<>>
    ELSE Walk(p, square, type, PIECE_OFFSETS(type)[k], square)
         \o WalkAll(p, square, type, k + 1)

\* get_pseudo_legal_moves, lines 596-653: what one square yields
SquareMoves(p, square) ==
    LET piece == get(p, square)
    IN  IF piece = None \/ piece.color # p.turn THEN <<>>
        ELSE IF piece.type = "p" THEN PawnMoves(p, square)
        ELSE WalkAll(p, square, piece.type, 1)

\* "for square in libchess.Square.get_all()": what the squares lo..hi of
\* get_all yield, in order
RECURSIVE BoardMoves(_, _, _)
BoardMoves(p, lo, hi) ==
    IF lo = hi THEN SquareMoves(p, AllSquares[lo])
    ELSE LET mid == (lo + hi) \div 2
         IN  BoardMoves(p, lo, mid) \o BoardMoves(p, mid + 1, hi)

\* lines 657-663 without the test of the cell the king passes over
KingSideCastlingThroughAttack(p) ==
    LET opponent == opposite_color(p.turn)
        k == IF p.turn = "b" THEN "k" ELSE "K"
        of == get_king(p, p.turn)
        to == of + 2
    IN  IF get_castling_right(p, k) /\ of # NoSquare
           /\ Cell(p, of + 1) = None /\ Cell(p, to) = None /\ ~is_check(p)
           /\ ~is_attacked(p, opponent, to)
        THEN <<Move(of, to, NoneStr)>> ELSE <<>>

\* get_pseudo_legal_moves, lines 657-663
KingSideCastling(p) ==
    LET opponent == opposite_color(p.turn)
        k == IF p.turn = "b" THEN "k" ELSE "K"
        of == get_king(p, p.turn)
        to == of + 2
    IN  IF get_castling_right(p, k) /\ of # NoSquare
           /\ Cell(p, of + 1) = None /\ Cell(p, to) = None /\ ~is_check(p)
           /\ ~is_attacked(p, opponent, of + 1) /\ ~is_attacked(p, opponent, to)
        THEN <<Move(of, to, NoneStr)>> ELSE <<>>

\* get_pseudo_legal_moves, lines 666-672
QueenSideCastling(p) ==
    LET opponent == opposite_color(p.turn)
        q == IF p.turn = "b" THEN "q" ELSE "Q"
        of == get_king(p, p.turn)
        to == of - 2
    IN  IF get_castling_right(p, q) /\ of # NoSquare
           /\ Cell(p, of - 1) = None /\ Cell(p, of - 2) = None /\ Cell(p, of - 3) = None
           /\ ~is_check(p)
           /\ ~is_attacked(p, opponent, of - 1) /\ ~is_attacked(p, opponent, to)
        THEN <<Move(of, to, NoneStr)>> ELSE <<>>

\* lines 660 and 668: get_king(...) is None and the generator raises
\* AttributeError after the moves of the pieces were yielded
CastlingRaises(p) ==
    /\ get_king(p, p.turn) = NoSquare
    /\ \/ get_castling_right(p, IF p.turn = "b" THEN "k" ELSE "K")
       \/ get_castling_right(p, IF p.turn = "b" THEN "q" ELSE "Q")

get_pseudo_legal_moves(p) ==
    BoardMoves(p, 1, 64) \o KingSideCastling(p) \o QueenSideCastling(p)

----------------------------------------------------------------------------
(* Legality filter *)

\* get_legal_moves, lines 680-682: the test of one pseudo-legal move, made on
\* a copy.  The copy is taken anew for each move from the unchanged position.
KeepsKingSafe(p, move) ==
    \E c \in {copy(p)} :
        \E potential_position \in {make_move(c, move)} :
            ~is_king_attacked(potential_position, p.turn)

\* get_legal_moves without its test: every pseudo-legal move is yielded
get_legal_moves_unfiltered(p) == get_pseudo_legal_moves(p)

get_legal_moves(p) ==
    LET Keep(move) == KeepsKingSafe(p, move)
    IN  SelectSeq(get_pseudo_legal_moves(p), Keep)

Range(s) == {s[i] : i \in 1..Len(s)}

----------------------------------------------------------------------------
(* Terminal-state classifier *)

is_checkmate(p) == IF ~is_check(p) THEN FALSE ELSE get_legal_moves(p) = <<>>

is_stalemate(p) == IF is_check(p) THEN FALSE ELSE get_legal_moves(p) = <<>>

\* get_piece_counts: color is "w", "b", "wb" or "bw", as a str
get_piece_counts(p, color) ==
    [t \in Types |->
        Cardinality({i \in 1..128 : /\ p.board[i] # None
                                    /\ InStr(p.board[i].color, color)
                                    /\ p.board[i].type = t})]

\* sum(piece_counts.values())
SumCounts(counts) ==
    counts["p"] + counts["b"] + counts["n"] + counts["r"] + counts["k"] + counts["q"]

\* is_insufficient_material, lines 865-871: the loop over get_all() returns
\* False at the first bishop whose shade differs from the bishop before it
BishopsOfOneShade(p) ==
    LET bishops == {k \in 1..64 : get(p, AllSquares[k]).type = "b"}
    IN  \A k \in bishops : \A j \in bishops :
            (k < j /\ \A m \in bishops : ~(k < m /\ m < j))
                => is_light(AllSquares[k]) = is_light(AllSquares[j])

\* is_insufficient_material with the bishops' squares never looked at
is_insufficient_material_any_shade(p) ==
    LET piece_counts == get_piece_counts(p, <<"w", "b">>)
    IN  IF SumCounts(piece_counts) = 2 THEN TRUE
        ELSE IF SumCounts(piece_counts) = 3
             THEN piece_counts["b"] = 1 \/ piece_counts["n"] = 1
        ELSE IF SumCounts(piece_counts) = 2 + piece_counts["b"]
             THEN /\ get_piece_counts(p, <<"w">>)["b"] # 0
                  /\ get_piece_counts(p, <<"b">>)["b"] # 0
        ELSE FALSE

is_insufficient_material(p) ==
    LET piece_counts == get_piece_counts(p, <<"w", "b">>)
    IN  IF SumCounts(piece_counts) = 2 THEN TRUE
        ELSE IF SumCounts(piece_counts) = 3
             THEN piece_counts["b"] = 1 \/ piece_counts["n"] = 1
        ELSE IF SumCounts(piece_counts) = 2 + piece_counts["b"]
             THEN LET white_has_bishop == get_piece_counts(p, <<"w">>)["b"] # 0
                      black_has_bishop == get_piece_counts(p, <<"b">>)["b"] # 0
                  IN  IF white_has_bishop /\ black_has_bishop
                      THEN BishopsOfOneShade(p)
                      ELSE FALSE
        ELSE FALSE

----------------------------------------------------------------------------
(* The positions and the games played from them *)

\* after 1. f3 e5 2. g4 Qh4
FoolsMateFen ==
    <<"r","n","b","1","k","b","n","r","/","p","p","p","p","1","p","p","p","/",
      "8","/","4","p","3","/","6","P","q","/","5","P","2","/","P","P","P","P",
      "P","2","P","/","R","N","B","Q","K","B","N","R"," ","w"," ","K","Q","k",
      "q"," ","-"," ","1"," ","3">>

KingBehindPawnFen ==
    <<"3","k","4","/","3","p","4","/","4","P","3","/","8","/","8","/","8","/",
      "8","/","4","K","3"," ","b"," ","-"," ","-"," ","0"," ","1">>

PromotionFen ==
    <<"8","/","P","6","k","/","8","/","8","/","8","/","8","/","8","/","K","7",
      " ","w"," ","-"," ","-"," ","5"," ","1","0">>

BlackEnPassantFen ==
    <<"4","k","3","/","8","/","8","/","8","/","3","p","4","/","8","/","4","P",
      "3","/","4","K","3"," ","w"," ","-"," ","-"," ","0"," ","1">>

Mv(f1, r1, f2, r2) == Move(from_name(f1, r1), from_name(f2, r2), NoneStr)
Promote(f1, r1, f2, r2, pr) == Move(from_name(f1, r1), from_name(f2, r2), pr)

\* Each game starts from a valid position (one king a side, the side not to
\* move not in check) and is a sequence of moves, each of which make_move is
\* given only if get_legal_moves yielded it.
Book ==
    << [start |-> StartFen,
        moves |-> <<Mv("d", 2, "d", 4), Mv("c", 7, "c", 5), Mv("d", 4, "c", 5),
                    Mv("d", 8, "b", 6), Mv("c", 5, "b", 6), Mv("a", 7, "a", 5),
                    Mv("b", 6, "a", 7)>>],
       [start |-> StartFen,
        moves |-> <<Mv("e", 2, "e", 4), Mv("d", 7, "d", 5), Mv("e", 4, "d", 5),
                    Mv("c", 7, "c", 5), Mv("d", 5, "c", 6)>>],
       [start |-> FoolsMateFen, moves |-> <<>>],
       [start |-> KingBehindPawnFen,
        moves |-> <<Mv("d", 7, "d", 5), Mv("e", 6, "d", 7)>>],
       [start |-> PromotionFen,
        moves |-> <<Promote("a", 7, "a", 8, "q"), Mv("h", 7, "g", 7)>>],
       [start |-> BlackEnPassantFen,
        moves |-> <<Mv("e", 2, "e", 4)>>] >>

\* moves a game may leave its line by
MaxFree == 1

----------------------------------------------------------------------------
(* The state machine: a position and the calls made on it *)

NoMove == Move(0, 0, NoneStr)

\* a call and its outcome: whether it raised, the move it was given, the moves
\* it yielded, the rule its input broke ("ok" if none), the boolean it returned
\* (result), the integer it was given (arg), the text it returned (text)
Called(op, raised, move, moves, rule) ==
    [op |-> op, raised |-> raised, move |-> move, moves |-> moves, rule |-> rule,
     result |-> FALSE, arg |-> 0, text |-> <<>>]

Given(op, raised, arg) ==
    [Called(op, raised, NoMove, <<>>, "ok") EXCEPT !.arg = arg]

Returned(op, move, text) ==
    [Called(op, FALSE, move, <<>>, "ok") EXCEPT !.text = text]

Answered(op, result) ==
    [Called(op, FALSE, NoMove, <<>>, "ok") EXCEPT !.result = result]

Become(q) ==
    /\ board' = q.board
    /\ turn' = q.turn
    /\ castling' = q.castling
    /\ ep_file' = q.ep_file
    /\ half_moves' = q.half_moves
    /\ move_number' = q.move_number

\* the fields of the position are those of q
Holds(q) ==
    /\ board = q.board
    /\ turn = q.turn
    /\ castling = q.castling
    /\ ep_file = q.ep_file
    /\ half_moves = q.half_moves
    /\ move_number = q.move_number

Init ==
    \E l \in 1..Len(Book) :
        LET q == from_fen(Book[l].start)
        IN  /\ Holds(q)
            /\ last = Called("set_fen", FALSE, NoMove, <<>>, "ok")
            /\ book = [line |-> l, ply |-> 0]
            /\ free = 0

\* list(get_legal_moves()): the position is only read
GetLegalMoves ==
    /\ last.op # "get_legal_moves"
    /\ last' = Called("get_legal_moves", CastlingRaises(Self), NoMove,
                      get_legal_moves(Self), "ok")
    /\ UNCHANGED <<board, turn, castling, ep_file, half_moves, move_number, book, free>>

OnBook == free = 0 /\ book.ply < Len(Book[book.line].moves)
NextBookMove == Book[book.line].moves[book.ply + 1]

\* make_move(m) for a move m that get_legal_moves yielded
MakeMove ==
    /\ last.op = "get_legal_moves"
    /\ \E k \in 1..Len(last.moves) :
        LET m == last.moves[k]
        IN  /\ \/ /\ OnBook /\ m = NextBookMove
                  /\ book' = [book EXCEPT !.ply = book.ply + 1]
                  /\ free' = free
               \/ /\ ~(OnBook /\ m = NextBookMove)
                  /\ free < MaxFree
                  /\ free' = free + 1
                  /\ book' = book
            /\ Become(make_move(Self, m))
            /\ last' = Called("make_move", FALSE, m, <<>>, "ok")

Next == GetLegalMoves \/ MakeMove

Spec == Init /\ [][Next]_vars

----------------------------------------------------------------------------
(* Material: the kings at home, pieces put on and taken off a few squares *)

KingsOnlyFen ==
    <<"4","k","3","/","8","/","8","/","8","/","8","/","8","/","8","/","4","K","3",
      " ","w"," ","-"," ","-"," ","0"," ","1">>

\* three light squares (f1, h1, c8) and two dark ones (c1, f8)
MaterialSquares ==
    {from_name("c", 1), from_name("f", 1), from_name("h", 1),
     from_name("c", 8), from_name("f", 8)}

MaterialPieces ==
    {None, Piece("w", "b"), Piece("b", "b"), Piece("w", "n"), Piece("b", "r")}

NoBook == [line |-> 0, ply |-> 0]

InitMaterial ==
    /\ Holds(from_fen(KingsOnlyFen))
    /\ last = Called("set_fen", FALSE, NoMove, <<>>, "ok")
    /\ book = NoBook
    /\ free = 0

\* set(square, piece)
PutPiece ==
    \E sq \in MaterialSquares : \E pc \in MaterialPieces :
        /\ Become(set(Self, sq, pc))
        /\ last' = Called("set", FALSE, NoMove, <<>>, "ok")
        /\ UNCHANGED <<book, free>>

\* is_insufficient_material(): the position is only read
IsInsufficientMaterial ==
    /\ last.op # "is_insufficient_material"
    /\ last' = Answered("is_insufficient_material", is_insufficient_material(Self))
    /\ UNCHANGED <<board, turn, castling, ep_file, half_moves, move_number, book, free>>

NextMaterial == PutPiece \/ IsInsufficientMaterial

SpecMaterial == InitMaterial /\ [][NextMaterial]_vars

----------------------------------------------------------------------------
(* FEN input: texts that keep every rule of set_fen, and texts that break one *)

\* each text as its six fields
ValidFens ==
    << << <<"r","n","b","q","k","b","n","r","/","p","p","p","p","p","p","p","p","/","8","/","8","/","8","/","8","/","P","P","P","P","P","P","P","P","/","R","N","B","Q","K","B","N","R">>, <<"w">>, <<"K","Q","k","q">>, <<"-">>, <<"0">>, <<"1">> >>,
       << <<"r","n","b","q","k","b","n","r","/","p","p","p","p","p","p","p","p","/","8","/","8","/","4","P","3","/","8","/","P","P","P","P","1","P","P","P","/","R","N","B","Q","K","B","N","R">>, <<"b">>, <<"K","Q","k","q">>, <<"e","3">>, <<"0">>, <<"1">> >>,
       << <<"r","n","b","q","k","b","n","r","/","p","p","1","p","p","p","p","p","/","8","/","2","p","5","/","4","P","3","/","8","/","P","P","P","P","1","P","P","P","/","R","N","B","Q","K","B","N","R">>, <<"w">>, <<"K","Q","k","q">>, <<"c","6">>, <<"0">>, <<"2">> >>,
       << <<"r","3","k","2","r","/","8","/","8","/","8","/","8","/","8","/","8","/","R","3","K","2","R">>, <<"w">>, <<"K","Q","k","q">>, <<"-">>, <<"1","2">>, <<"4","0">> >>,
       << <<"r","3","k","2","r","/","8","/","8","/","8","/","8","/","8","/","8","/","R","3","K","2","R">>, <<"b">>, <<"K","q">>, <<"-">>, <<"3">>, <<"7">> >>,
       << <<"r","3","k","2","r","/","8","/","8","/","8","/","8","/","8","/","8","/","R","3","K","2","R">>, <<"w">>, <<"Q","k">>, <<"-">>, <<"0">>, <<"1","0">> >>,
       << <<"r","3","k","2","r","/","8","/","8","/","8","/","8","/","8","/","8","/","R","3","K","2","R">>, <<"b">>, <<"k","q">>, <<"-">>, <<"9","9">>, <<"1","0","0">> >>,
       << <<"4","k","3","/","8","/","8","/","8","/","8","/","8","/","8","/","4","K","3">>, <<"w">>, <<"-">>, <<"-">>, <<"0">>, <<"1">> >>,
       << <<"4","k","3","/","8","/","8","/","8","/","8","/","8","/","8","/","4","K","3">>, <<"b">>, <<"-">>, <<"-">>, <<"5","0">>, <<"7","5">> >>,
       << <<"4","k","3","/","8","/","8","/","8","/","8","/","8","/","8","/","4","K","2","R">>, <<"w">>, <<"K">>, <<"-">>, <<"5">>, <<"9">> >>,
       << <<"4","k","3","/","8","/","8","/","8","/","8","/","8","/","8","/","4","K","2","R">>, <<"w">>, <<"K","Q","k","q">>, <<"-">>, <<"5">>, <<"9">> >>,
       << <<"8","/","P","6","k","/","8","/","8","/","8","/","8","/","8","/","K","7">>, <<"w">>, <<"-">>, <<"-">>, <<"5">>, <<"1","0">> >>,
       << <<"8","/","P","6","k","/","8","/","8","/","8","/","8","/","8","/","K","7">>, <<"b">>, <<"-">>, <<"a","6">>, <<"7">>, <<"1","1">> >>,
       << <<"4","k","3","/","8","/","8","/","8","/","8","/","8","/","8","/","R","3","K","3">>, <<"b">>, <<"Q">>, <<"-">>, <<"1">>, <<"2">> >>,
       << <<"r","3","k","3","/","8","/","8","/","8","/","8","/","8","/","8","/","4","K","3">>, <<"w">>, <<"q">>, <<"-">>, <<"2">>, <<"3">> >>,
       << <<"4","k","2","r","/","8","/","8","/","8","/","8","/","8","/","8","/","4","K","3">>, <<"b">>, <<"k">>, <<"-">>, <<"4">>, <<"5">> >>,
       << <<"8","/","8","/","8","/","3","k","4","/","8","/","3","K","4","/","8","/","8">>, <<"w">>, <<"-">>, <<"-">>, <<"3","0">>, <<"6","0">> >>,
       << <<"1","n","b","1","k","b","n","r","/","P","p","1","p","p","p","p","p","/","8","/","p","7","/","8","/","8","/","P","P","P","1","P","P","P","P","/","R","N","B","Q","K","B","N","R">>, <<"b">>, <<"K","Q","k","q">>, <<"-">>, <<"0">>, <<"4">> >> >>

\* a field that breaks one rule, to stand in the place of a valid one
BrokenFields ==
    << [rule |-> "ranks", field |-> 1, text |-> <<"4","k","3","/","8","/","8","/","8","/","8","/","8","/","4","K","3">>],
       [rule |-> "ranks", field |-> 1, text |-> <<"4","k","3","/","8","/","8","/","8","/","8","/","8","/","8","/","8","/","4","K","3">>],
       [rule |-> "files", field |-> 1, text |-> <<"4","k","2","/","8","/","8","/","8","/","8","/","8","/","8","/","4","K","3">>],
       [rule |-> "files", field |-> 1, text |-> <<"4","k","3","/","8","/","8","/","8","/","8","/","8","/","8","/","4","K","3","R">>],
       [rule |-> "files", field |-> 1, text |-> <<"4","k","3","/","/","8","/","8","/","8","/","8","/","8","/","4","K","3">>],
       [rule |-> "digits", field |-> 1, text |-> <<"4","k","3","/","4","4","/","8","/","8","/","8","/","8","/","8","/","4","K","3">>],
       [rule |-> "digits", field |-> 1, text |-> <<"4","k","3","/","8","/","8","/","8","/","8","/","8","/","8","/","4","K","1","2">>],
       [rule |-> "character", field |-> 1, text |-> <<"4","k","3","/","8","/","8","/","8","/","8","/","8","/","7","x","/","4","K","3">>],
       [rule |-> "character", field |-> 1, text |-> <<"4","k","3","/","8","/","8","/","8","/","8","/","8","/","9","/","4","K","3">>],
       [rule |-> "character", field |-> 1, text |-> <<"4","k","3","/","8","/","8","/","8","/","8","/","8","/","7","0","/","4","K","3">>],
       [rule |-> "turn", field |-> 2, text |-> <<"x">>],
       [rule |-> "turn", field |-> 2, text |-> <<"W">>],
       [rule |-> "turn", field |-> 2, text |-> <<"w","b">>],
       [rule |-> "castling", field |-> 3, text |-> <<"Q","K">>],
       [rule |-> "castling", field |-> 3, text |-> <<"K","Q","k","q","k">>],
       [rule |-> "castling", field |-> 3, text |-> <<"k","K">>],
       [rule |-> "castling", field |-> 3, text |-> <<"K","-">>],
       [rule |-> "en-passant", field |-> 4, text |-> <<"e","4">>],
       [rule |-> "en-passant", field |-> 4, text |-> <<"i","3">>],
       [rule |-> "en-passant", field |-> 4, text |-> <<"e">>],
       [rule |-> "en-passant", field |-> 4, text |-> <<"E","3">>],
       [rule |-> "en-passant", field |-> 4, text |-> <<"a","6","6">>],
       [rule |-> "halfmove", field |-> 5, text |-> <<"-","1">>],
       [rule |-> "halfmove", field |-> 5, text |-> <<"-","1","2">>],
       [rule |-> "fullmove", field |-> 6, text |-> <<"0">>],
       [rule |-> "fullmove", field |-> 6, text |-> <<"-","3">>] >>

\* the valid texts that the broken fields are put into
BrokenBases == {1, Len(ValidFens) - 1}

FenInputs ==
    {[fen |-> join(ValidFens[v]), rule |-> "ok"] : v \in 1..Len(ValidFens)}
    \cup {[fen |-> join([ValidFens[b] EXCEPT ![BrokenFields[k].field] = BrokenFields[k].text]),
           rule |-> BrokenFields[k].rule] : b \in BrokenBases, k \in 1..Len(BrokenFields)}
    \cup {[fen |-> join(SubSeq(ValidFens[b], 1, 5)), rule |-> "fields"] : b \in BrokenBases}
    \cup {[fen |-> join(ValidFens[b] \o << <<"1">> >>), rule |-> "fields"] : b \in BrokenBases}

InitFen ==
    /\ Holds(NewPosition)
    /\ last = Called("__init__", FALSE, NoMove, <<>>, "ok")
    /\ book = NoBook
    /\ free = 0

\* set_fen(fen): a raise is caught by the caller, the position stays in use
SetFen ==
    \E input \in FenInputs :
        LET r == set_fen(Self, input.fen)
        IN  /\ Become(r.pos)
            /\ last' = Called("set_fen", r.raised, NoMove, <<>>, input.rule)
            /\ UNCHANGED <<book, free>>

NextFen == SetFen

SpecFen == InitFen /\ [][NextFen]_vars

----------------------------------------------------------------------------
(* Counters: the setters of the two counters, called on loaded positions *)

\* the largest number given to a setter
MaxNumber == 3

InitCounters ==
    \E v \in 1..Len(ValidFens) :
        /\ Holds(from_fen(join(ValidFens[v])))
        /\ last = Called("set_fen", FALSE, NoMove, <<>>, "ok")
        /\ book = NoBook
        /\ free = 0

\* set_half_moves(n)
SetHalfMoves ==
    \E n \in (0 - 1)..MaxNumber :
        LET r == set_half_moves(Self, n)
        IN  /\ Become(r.pos)
            /\ last' = Given("set_half_moves", r.raised, n)
            /\ UNCHANGED <<book, free>>

\* set_move_number(n)
SetMoveNumber ==
    \E n \in (0 - 1)..MaxNumber :
        LET r == set_move_number(Self, n)
        IN  /\ Become(r.pos)
            /\ last' = Given("set_move_number", r.raised, n)
            /\ UNCHANGED <<book, free>>

NextCounters == SetHalfMoves \/ SetMoveNumber

SpecCounters == InitCounters /\ [][NextCounters]_vars

----------------------------------------------------------------------------
(* Castling: kings and rooks at home, with attackers and blockers *)

\* both sides may castle; f1, e1 (check), b1, d8 or g1 and c1 attacked; b1 and
\* g1 occupied; rights held in part
CastlingFens ==
    <<
     <<"r","3","k","2","r","/","8","/","8","/","8","/","8","/","8","/","8",
       "/","R","3","K","2","R"," ","w"," ","K","Q","k","q"," ","-"," ","0",
       " ","1">>,
     <<"r","3","k","2","r","/","8","/","8","/","8","/","8","/","8","/","8",
       "/","R","3","K","2","R"," ","b"," ","K","Q","k","q"," ","-"," ","0",
       " ","1">>,
     <<"r","3","k","2","r","/","8","/","8","/","8","/","8","/","5","r","2",
       "/","8","/","R","3","K","2","R"," ","w"," ","K","Q","k","q"," ","-",
       " ","0"," ","1">>,
     <<"r","3","k","2","r","/","8","/","8","/","8","/","8","/","4","r","3",
       "/","8","/","R","3","K","2","R"," ","w"," ","K","Q","k","q"," ","-",
       " ","0"," ","1">>,
     <<"r","3","k","2","r","/","8","/","8","/","8","/","8","/","1","r","6",
       "/","8","/","R","3","K","2","R"," ","w"," ","K","Q","k","q"," ","-",
       " ","0"," ","1">>,
     <<"r","3","k","2","r","/","8","/","8","/","8","/","8","/","8","/","8",
       "/","R","N","2","K","1","N","R"," ","w"," ","K","Q","k","q"," ","-",
       " ","0"," ","1">>,
     <<"r","3","k","2","r","/","8","/","3","R","4","/","8","/","8","/","8",
       "/","8","/","R","3","K","2","R"," ","b"," ","K","Q","k","q"," ","-",
       " ","0"," ","1">>,
     <<"r","3","k","2","r","/","8","/","8","/","8","/","8","/","8","/","8",
       "/","R","3","K","2","R"," ","w"," ","K","q"," ","-"," ","0"," ","1">>,
     <<"r","3","k","2","r","/","8","/","8","/","8","/","8","/","4","b","3",
       "/","8","/","R","3","K","2","R"," ","w"," ","K","Q","k","q"," ","-",
       " ","0"," ","1">>
    >>

InitCastling ==
    \E v \in 1..Len(CastlingFens) :
        /\ Holds(from_fen(CastlingFens[v]))
        /\ last = Called("set_fen", FALSE, NoMove, <<>>, "ok")
        /\ book = NoBook
        /\ free = 0

\* list(get_pseudo_legal_moves()): the position is only read
GetPseudoLegalMoves ==
    /\ last.op # "get_pseudo_legal_moves"
    /\ last' = Called("get_pseudo_legal_moves", CastlingRaises(Self), NoMove,
                      get_pseudo_legal_moves(Self), "ok")
    /\ UNCHANGED <<board, turn, castling, ep_file, half_moves, move_number, book, free>>

\* make_move(m) for a pseudo-legal move m that get_legal_moves keeps
MakeLegalMove ==
    /\ last.op = "get_pseudo_legal_moves"
    /\ free < MaxFree
    /\ \E k \in 1..Len(last.moves) :
        LET m == last.moves[k]
        IN  /\ KeepsKingSafe(Self, m)
            /\ Become(make_move(Self, m))
            /\ last' = Called("make_move", FALSE, m, <<>>, "ok")
    /\ free' = free + 1
    /\ book' = book

NextCastling == GetPseudoLegalMoves \/ MakeLegalMove

SpecCastling == InitCastling /\ [][NextCastling]_vars

----------------------------------------------------------------------------
(* Standard algebraic notation *)

\* Square.get_name: the file letter and the rank digit
get_name(sq) == <<get_file(sq)>> \o str(get_rank(sq))

\* _get_disambiguator, lines 66-89.  The loop only ever sets its two flags,
\* so they are what the legal moves as a set make them; its early break
\* leaves them as they are.
get_disambiguator(p, move) ==
    LET piece == get(p, move.source)
        Decide(legal) ==
            LET ambiguous == {m \in Range(legal) :
                                 /\ piece = get(p, m.source)
                                 /\ move.source # m.source
                                 /\ move.target = m.target}
                same_rank == \E m \in ambiguous : get_rank(move.source) = get_rank(m.source)
                same_file == \E m \in ambiguous : get_file(move.source) = get_file(m.source)
            IN  IF same_rank /\ same_file THEN get_name(move.source)
                ELSE IF same_file THEN str(get_rank(move.source))
                ELSE IF same_rank THEN <<get_file(move.source)>>
                ELSE <<>>
    IN  Then(get_legal_moves(p), Decide)

\* get_move_info, lines 99-159: the MoveInfo of a move that passed line 97
MoveInfo(p, move) ==
    LET piece == get(p, move.source)
        enpassant == /\ piece.type = "p"
                     /\ get_file(move.target) # get_file(move.source)
                     /\ get(p, move.target) = None
        steps == get_x(move.target) - get_x(move.source)
        is_king_side_castle == piece.type = "k" /\ steps = 2
        is_queen_side_castle == piece.type = "k" /\ steps = 0 - 2
        Make(c) == make_move(c, move)
        Info(resulting_position) ==
            LET capture == IF enpassant THEN Piece(resulting_position.turn, "p")
                           ELSE get(p, move.target)
                Mark(checkmate) ==
                    IF checkmate THEN <<"#">>
                    ELSE IF is_check(resulting_position) THEN <<"+">> ELSE <<>>
            IN  [raised |-> FALSE,
                 san |->
                    (IF is_king_side_castle THEN <<"o", "-", "o">>
                     ELSE IF is_queen_side_castle THEN <<"o", "-", "o", "-", "o">>
                     ELSE (IF piece.type # "p" THEN <<upper(piece.type)>> ELSE <<>>)
                          \o get_disambiguator(p, move)
                          \o (IF capture # None
                              THEN (IF piece.type = "p" THEN <<get_file(move.source)>>
                                    ELSE <<>>) \o <<"x">>
                              ELSE <<>>)
                          \o get_name(move.target)
                          \o (IF move.promotion # NoneStr
                              THEN <<"=", upper(move.promotion)>> ELSE <<>>))
                    \o Then(is_checkmate(resulting_position), Mark)
                    \o (IF enpassant THEN <<" ", "(", "e", ".", "p", ".", ")">> ELSE <<>>)]
    IN  Then(Then(copy(p), Make), Info)

\* get_move_info, lines 91-159: the SAN of the MoveInfo returned, or the
\* AssertionError of line 97
get_move_info(p, move) ==
    LET Checked(legal) ==
            IF ~(move \in Range(legal)) THEN [raised |-> TRUE, san |-> <<>>]
            ELSE MoveInfo(p, move)
    IN  Then(get_legal_moves(p), Checked)

\* two knights, rooks, queens or pawns that reach one cell: from cells of
\* neither one rank nor one file, of one rank, of one file, of both; and the
\* castlings
SanFens ==
    <<
     <<"8","/","8","/","8","/","8","/","8","/","4","k","N","2","/","8","/",
       "1","N","2","K","3"," ","w"," ","-"," ","-"," ","0"," ","1">>,
     <<"4","k","3","/","8","/","8","/","8","/","8","/","8","/","8","/","1",
       "N","2","K","N","2"," ","w"," ","-"," ","-"," ","0"," ","1">>,
     <<"R","6","R","/","8","/","8","/","8","/","8","/","8","/","1","k","6",
       "/","4","K","3"," ","w"," ","-"," ","-"," ","0"," ","1">>,
     <<"4","k","3","/","8","/","8","/","n","7","/","8","/","n","7","/","8",
       "/","4","K","3"," ","b"," ","-"," ","-"," ","0"," ","1">>,
     <<"6","k","1","/","8","/","8","/","8","/","Q","3","Q","3","/","8","/",
       "8","/","Q","3","K","3"," ","w"," ","-"," ","-"," ","0"," ","1">>,
     <<"4","k","3","/","8","/","8","/","3","p","4","/","2","P","1","P","3",
       "/","8","/","8","/","4","K","3"," ","w"," ","-"," ","-"," ","0"," ",
       "1">>,
     <<"r","3","k","2","r","/","8","/","8","/","8","/","8","/","8","/","8",
       "/","R","3","K","2","R"," ","b"," ","K","Q","k","q"," ","-"," ","0",
       " ","1">>
    >>

InitSan ==
    \E v \in 1..Len(SanFens) :
        /\ Holds(from_fen(SanFens[v]))
        /\ last = Called("set_fen", FALSE, NoMove, <<>>, "ok")
        /\ book = NoBook
        /\ free = 0

\* a call that only reads the position is made on a position just loaded
Loaded == last.op = "set_fen"

\* _get_disambiguator(m) for a legal move m: the position is only read
GetDisambiguator ==
    /\ Loaded
    /\ \E m \in Range(get_legal_moves(Self)) :
        /\ last' = Returned("_get_disambiguator", m, get_disambiguator(Self, m))
        /\ UNCHANGED <<board, turn, castling, ep_file, half_moves, move_number, book, free>>

\* get_move_info(m) for a pseudo-legal move m: the position is only read
GetMoveInfo ==
    /\ Loaded
    /\ \E m \in Range(get_pseudo_legal_moves(Self)) :
        \E info \in {get_move_info(Self, m)} :
            /\ last' = [Returned("get_move_info", m, info.san) EXCEPT !.raised = info.raised]
            /\ UNCHANGED <<board, turn, castling, ep_file, half_moves, move_number, book, free>>

NextSan == GetDisambiguator \/ GetMoveInfo

SpecSan == InitSan /\ [][NextSan]_vars

----------------------------------------------------------------------------
(* Properties of the games *)

\* C1: get_legal_moves yields exactly the pseudo-legal moves after which, made
\* on a copy, the mover's king is not attacked, and it leaves the position's
\* FEN as it was; after make_move of a move it yielded, the king of the player
\* who moved is not attacked.
C1_LegalMovesKeepKingSafe ==
    [][/\ last'.op = "get_legal_moves" =>
            /\ get_fen(Self') = get_fen(Self)
            /\ \A m \in Range(get_pseudo_legal_moves(Self)) :
                   m \in Range(last'.moves) <=> KeepsKingSafe(Self, m)
            /\ Range(last'.moves) \subseteq Range(get_pseudo_legal_moves(Self))
       /\ last'.op = "make_move" => ~is_king_attacked(Self', turn)]_vars

\* get_legal_moves has run on a position where it yielded some of the
\* pseudo-legal moves and held others back
C1_SomeMoveFiltered ==
    /\ last.op = "get_legal_moves"
    /\ last.moves # <<>>
    /\ Len(last.moves) < Len(get_pseudo_legal_moves(Self))

C2_StartMoves ==
    {Mv(Files[x], 2, Files[x], 3) : x \in 1..8}
        \cup {Mv(Files[x], 2, Files[x], 4) : x \in 1..8}
        \cup {Mv("b", 1, "a", 3), Mv("b", 1, "c", 3), Mv("g", 1, "f", 3), Mv("g", 1, "h", 3)}

\* C2: from the standard start position get_legal_moves yields exactly 20
\* moves: the 8 single pawn pushes, the 8 double pawn pushes, the 4 knight moves.
C2_TwentyMovesAtStart ==
    (last.op = "get_legal_moves" /\ get_fen(Self) = StartFen) =>
        /\ Len(last.moves) = 20
        /\ Range(last.moves) = C2_StartMoves

\* C3: in the position after 1. f3 e5 2. g4 Qh4 is_checkmate() is true and
\* get_legal_moves() yields no move.
C3_FoolsMateIsCheckmate ==
    (last.op = "get_legal_moves" /\ get_fen(Self) = FoolsMateFen) =>
        /\ last.moves = <<>>
        /\ is_checkmate(Self)

\* the move m that led to position p was a pawn's double push
C4_DoublePushed(p, m) ==
    /\ get(p, m.target).type = "p"
    /\ get_file(m.target) = get_file(m.source)
    /\ Abs(get_rank(m.target) - get_rank(m.source)) = 2

\* the squares beside sq holding a pawn of the player to move
C4_Beside(p, sq) ==
    {s \in {sq - 1, sq + 1} : ~OffBoard(s) /\ get(p, s) = Piece(p.turn, "p")}

\* the cell a pawn passed over on its double push m
C4_Behind(m) == (m.source + m.target) \div 2

\* the board after the pawn on s has taken en passant the pawn on pushed,
\* landing on behind
C4_Taken(p, s, behind, pushed) ==
    [p EXCEPT !.board = [p.board EXCEPT ![s + 1] = None,
                                        ![behind + 1] = p.board[s + 1],
                                        ![pushed + 1] = None]]

\* move m, about to be made in position p, is an en-passant capture
C4_IsEnPassant(p, m) ==
    /\ get(p, m.source) = Piece(p.turn, "p")
    /\ get(p, m.target) = None
    /\ get_file(m.target) # get_file(m.source)
    /\ get_file(m.target) = p.ep_file
    /\ get_rank(m.source) = (IF p.turn = "w" THEN 5 ELSE 4)
    /\ get(p, Index(get_x(m.target), get_y(m.source))) = Piece(opposite_color(p.turn), "p")

\* C4: after a double push landing beside an enemy pawn, that pawn's diagonal
\* move onto the cell behind the pushed pawn is a legal move (unless it leaves
\* its own king attacked); make_move of an en-passant capture empties the cell
\* of the double-pushed pawn (target's file, source's rank), moves the
\* capturing pawn from source to target and changes no other cell.
C4_EnPassantCapture ==
    [][/\ (last.op = "make_move" /\ last'.op = "get_legal_moves"
              /\ C4_DoublePushed(Self, last.move)) =>
            \A s \in C4_Beside(Self, last.move.target) :
                is_king_attacked(C4_Taken(Self, s, C4_Behind(last.move), last.move.target), turn)
                    \/ Move(s, C4_Behind(last.move), NoneStr) \in Range(last'.moves)
       /\ (last'.op = "make_move" /\ C4_IsEnPassant(Self, last'.move)) =>
            board' = C4_Taken(Self, last'.move.source, last'.move.target,
                              Index(get_x(last'.move.target), get_y(last'.move.source))).board]_vars

\* C5: every castling right held has its theoretical right (the king on its
\* home square and the matching rook on its home corner): once a king or rook
\* is off its home square the right is not held, and set_castling_right(t,
\* True) raises.
C5_HeldRightIsTheoretical ==
    \A i \in 1..Len(CastlingTypes) :
        ~get_theoretical_castling_right(Self, CastlingTypes[i]) =>
            /\ ~get_castling_right(Self, CastlingTypes[i])
            /\ set_castling_right_raises(Self, CastlingTypes[i], TRUE)

C6_Kings(color) == {sq \in 0..127 : ~OffBoard(sq) /\ get(Self, sq) = Piece(color, "k")}

\* C6: after any sequence of legal moves from a valid position the board
\* holds exactly one white king and exactly one black king.
C6_OneKingEachSide ==
    Cardinality(C6_Kings("w")) = 1 /\ Cardinality(C6_Kings("b")) = 1

\* C7: loading get_fen() into a fresh position gives a position with the
\* identical get_fen(), the same 64 cells, turn, castling rights, en-passant
\* file, halfmove clock and move number.
C7_FenRoundTrip ==
    LET loaded == set_fen(NewPosition, get_fen(Self))
    IN  /\ ~loaded.raised
        /\ get_fen(loaded.pos) = get_fen(Self)
        /\ \A k \in 1..64 : get(loaded.pos, AllSquares[k]) = get(Self, AllSquares[k])
        /\ loaded.pos.turn = turn
        /\ loaded.pos.castling = castling
        /\ loaded.pos.ep_file = ep_file
        /\ loaded.pos.half_moves = half_moves
        /\ loaded.pos.move_number = move_number

\* C9: after make_move of a legal move the halfmove clock is 0 if the move was
\* a pawn move (a promotion included) or a capture (en passant included), and
\* the previous value plus 1 otherwise; it is never negative.
C9_HalfMoveClock ==
    [][last'.op = "make_move" =>
          /\ half_moves' >= 0
          /\ half_moves' =
                IF \/ get(Self, last'.move.source).type = "p"
                   \/ get(Self, last'.move.target) # None
                THEN 0
                ELSE half_moves + 1]_vars

----------------------------------------------------------------------------
(* Properties of the material test *)

C8_Others == {k \in 1..64 : get(Self, AllSquares[k]) \notin {None, Piece("w", "k"), Piece("b", "k")}}

C8_Bishops(color) == {k \in 1..64 : get(Self, AllSquares[k]) = Piece(color, "b")}

\* what remains besides the two kings cannot mate
C8_Insufficient ==
    \/ C8_Others = {}
    \/ /\ Cardinality(C8_Others) = 1
       /\ \A k \in C8_Others : get(Self, AllSquares[k]).type \in {"b", "n"}
    \/ /\ C8_Others = C8_Bishops("w") \cup C8_Bishops("b")
       /\ C8_Bishops("w") # {}
       /\ C8_Bishops("b") # {}
       /\ \A j \in C8_Others : \A k \in C8_Others :
              is_light(AllSquares[j]) = is_light(AllSquares[k])

----------------------------------------------------------------------------
(* Properties of FEN input *)

\* C10: set_fen with a text that breaks a structural rule (field count, rank
\* count, files in a rank, consecutive digits, character, turn, castling
\* field, en-passant field, negative halfmove clock, move number below 1)
\* raises and leaves every field of the position, and so its get_fen(), as
\* it was.
C10_BrokenFenRaisesAndKeeps ==
    [][(last'.op = "set_fen" /\ last'.rule # "ok") =>
          /\ last'.raised
          /\ Self' = Self
          /\ get_fen(Self') = get_fen(Self)]_vars

\* a text with a move number below 1 was refused by a position that had been
\* loaded before
C10_RefusedAfterLoad ==
    /\ last.op = "set_fen"
    /\ last.raised
    /\ last.rule = "fullmove"
    /\ half_moves = 99

----------------------------------------------------------------------------
(* Properties of the counters *)

\* C11: after set_move_number(n) with n positive, get_move_number() returns n
\* and the sixth field of get_fen() is n; a non-positive n is rejected.
C11_SetMoveNumberSets ==
    last.op = "set_move_number" =>
        IF last.arg >= 1
        THEN /\ ~last.raised
             /\ get_move_number(Self) = last.arg
             /\ split(get_fen(Self))[6] = str(last.arg)
        ELSE last.raised

----------------------------------------------------------------------------
(* Properties of the pawn moves *)

\* the pseudo-legal moves of the pawns of the player to move
C12_PawnMoves ==
    {m \in Range(get_pseudo_legal_moves(Self)) : get(Self, m.source).type = "p"}

\* one rank forward for the player to move: up for white, down for black
C13_Forward(m) ==
    get_rank(m.target) - get_rank(m.source) = (IF turn = "w" THEN 1 ELSE 0 - 1)

\* C12: a pawn's two-square advance is yielded only from its side's home rank
\* (2 for white, 7 for black) and only if the cell passed over and the
\* destination cell are both empty.
C12_DoublePushOntoEmptyCells ==
    \A m \in C12_PawnMoves :
        Abs(get_rank(m.target) - get_rank(m.source)) = 2 =>
            /\ get_rank(m.source) = (IF turn = "w" THEN 2 ELSE 7)
            /\ get(Self, (m.source + m.target) \div 2) = None
            /\ get(Self, m.target) = None

\* C13: every pseudo-legal pawn move onto an occupied cell goes one rank
\* forward and one file aside onto an enemy piece, and a pawn can capture on
\* an enemy-occupied cell exactly when get_attackers reports the pawn as
\* attacking that cell.
C13_PawnCapturesAreDiagonal ==
    /\ \A m \in C12_PawnMoves :
           get(Self, m.target) # None =>
               /\ get(Self, m.target).color = opposite_color(turn)
               /\ C13_Forward(m)
               /\ Abs(get_x(m.target) - get_x(m.source)) = 1
    /\ \A j \in 1..64 : \A k \in 1..64 :
           (/\ get(Self, AllSquares[j]) = Piece(turn, "p")
            /\ get(Self, AllSquares[k]) # None
            /\ get(Self, AllSquares[k]).color = opposite_color(turn)) =>
               ((\E m \in C12_PawnMoves :
                     m.source = AllSquares[j] /\ m.target = AllSquares[k])
                <=> AllSquares[j] \in Range(get_attackers(Self, turn, AllSquares[k])))

\* move m of position p takes a pawn diagonally onto an empty cell
C17_DiagonalOntoEmpty(p, m) ==
    /\ get(p, m.source).type = "p"
    /\ get_file(m.target) # get_file(m.source)
    /\ get(p, m.target) = None

\* the cell on the target's file and the source's rank
C17_Beside(m) == Index(get_x(m.target), get_y(m.source))

\* C17: every pseudo-legal pawn move diagonally onto an empty cell is made by
\* a pawn standing beside an enemy pawn on the target's file and the source's
\* rank, and make_move of such a move changes no cell but the source, the
\* target and the cell of that enemy pawn.
C17_EnPassantTakesOnlyThePawn ==
    [][/\ \A m \in C12_PawnMoves :
              C17_DiagonalOntoEmpty(Self, m) =>
                  get(Self, C17_Beside(m)) = Piece(opposite_color(turn), "p")
       /\ (last'.op = "make_move" /\ C17_DiagonalOntoEmpty(Self, last'.move)) =>
              \A i \in 0..127 :
                  i \notin {last'.move.source, last'.move.target, C17_Beside(last'.move)}
                      => board'[i + 1] = board[i + 1]]_vars

----------------------------------------------------------------------------
(* Properties of the attack detector *)

\* the cells strictly between two cells of one rank, file or diagonal
C14_Between(s, t) ==
    LET dx == get_x(t) - get_x(s)
        dy == get_y(t) - get_y(s)
        n  == IF Abs(dx) > Abs(dy) THEN Abs(dx) ELSE Abs(dy)
    IN  {Index(get_x(s) + (dx \div n) * i, get_y(s) + (dy \div n) * i) : i \in 1..(n - 1)}

\* the piece on cell s attacks cell t by the rules of chess
C14_Attacks(p, s, t) ==
    LET piece == get(p, s)
        dx == get_x(t) - get_x(s)
        dy == get_y(t) - get_y(s)
        straight == (dx = 0) # (dy = 0)
        diagonal == Abs(dx) = Abs(dy) /\ dx # 0
        unblocked == \A c \in C14_Between(s, t) : get(p, c) = None
    IN  CASE piece.type = "p" -> Abs(dx) = 1 /\ dy = (IF piece.color = "w" THEN 1 ELSE 0 - 1)
          [] piece.type = "n" -> {Abs(dx), Abs(dy)} = {1, 2}
          [] piece.type = "k" -> (straight \/ diagonal) /\ Abs(dx) <= 1 /\ Abs(dy) <= 1
          [] piece.type = "b" -> diagonal /\ unblocked
          [] piece.type = "r" -> straight /\ unblocked
          [] piece.type = "q" -> (straight \/ diagonal) /\ unblocked

\* the cells holding a piece of the color that attacks cell t
C14_Attackers(p, color, t) ==
    {AllSquares[j] : j \in {i \in 1..64 :
        /\ get(p, AllSquares[i]) # None
        /\ get(p, AllSquares[i]).color = color
        /\ C14_Attacks(p, AllSquares[i], t)}}

\* get_attackers yields the attacking cells and no other
C14_Exact ==
    \A k \in 1..64 : \A color \in {"w", "b"} :
        Range(get_attackers(Self, color, AllSquares[k])) = C14_Attackers(Self, color, AllSquares[k])

\* get_attackers yields no cell twice
C14_Once ==
    \A k \in 1..64 : \A color \in {"w", "b"} :
        LET yielded == get_attackers(Self, color, AllSquares[k])
        IN  \A a \in 1..Len(yielded) : \A b \in 1..Len(yielded) :
                yielded[a] = yielded[b] => a = b

\* is_attacked is true exactly when get_attackers yields something
C14_IsAttacked ==
    \A k \in 1..64 : \A color \in {"w", "b"} :
        is_attacked(Self, color, AllSquares[k])
            <=> get_attackers(Self, color, AllSquares[k]) # <<>>

\* C14: get_attackers(color, square) yields exactly the cells holding a piece
\* of that color that attacks the square, each of them once and no other, and
\* is_attacked(color, square) is true exactly when that sequence is not empty.
C14_AttackersExactlyOnce == C14_Exact /\ C14_Once /\ C14_IsAttacked

----------------------------------------------------------------------------
(* Properties of castling *)

\* the home cell of the king of the player to move
C15_Home == IF turn = "w" THEN E1 ELSE E8

\* the player to move holds the king-side right, f and g are empty, the king
\* is not in check and neither f nor g is attacked by the opponent
C15_KingSideAllowed ==
    /\ get_castling_right(Self, IF turn = "w" THEN "K" ELSE "k")
    /\ get(Self, C15_Home + 1) = None /\ get(Self, C15_Home + 2) = None
    /\ ~is_check(Self)
    /\ ~is_attacked(Self, opposite_color(turn), C15_Home + 1)
    /\ ~is_attacked(Self, opposite_color(turn), C15_Home + 2)

\* the player to move holds the queen-side right, b, c and d are empty, the
\* king is not in check and neither d nor c is attacked by the opponent
C15_QueenSideAllowed ==
    /\ get_castling_right(Self, IF turn = "w" THEN "Q" ELSE "q")
    /\ get(Self, C15_Home - 1) = None /\ get(Self, C15_Home - 2) = None
    /\ get(Self, C15_Home - 3) = None
    /\ ~is_check(Self)
    /\ ~is_attacked(Self, opposite_color(turn), C15_Home - 1)
    /\ ~is_attacked(Self, opposite_color(turn), C15_Home - 2)

\* the two-square moves of a king among the moves
C15_TwoSquareKingMoves(moves) ==
    {m \in Range(moves) : /\ get(Self, m.source).type = "k"
                          /\ Abs(m.target - m.source) = 2}

\* the moves hold a king's two-square move exactly for the allowed castlings
C15_Castlings(moves) ==
    C15_TwoSquareKingMoves(moves) =
        (IF C15_KingSideAllowed THEN {Move(C15_Home, C15_Home + 2, NoneStr)} ELSE {})
        \cup (IF C15_QueenSideAllowed THEN {Move(C15_Home, C15_Home - 2, NoneStr)} ELSE {})

\* C15: get_pseudo_legal_moves yields a king's two-square castling move if and
\* only if the player to move holds the right, the cells between king and
\* rook are empty (f, g; b, c, d), the king is not in check and neither the
\* cell it passes over nor its destination is attacked by the opponent.
C15_CastlingYieldedIffAllowed ==
    last.op = "get_pseudo_legal_moves" => C15_Castlings(last.moves)

\* get_pseudo_legal_moves has yielded a castling move on one side and held
\* back the other although its right is held
C15_OneSideYielded ==
    /\ last.op = "get_pseudo_legal_moves"
    /\ Cardinality(C15_TwoSquareKingMoves(last.moves)) = 1
    /\ get_castling_right(Self, IF turn = "w" THEN "K" ELSE "k")
    /\ get_castling_right(Self, IF turn = "w" THEN "Q" ELSE "q")

----------------------------------------------------------------------------
(* Properties of the notation *)

\* another legal move by a piece of the same type and color goes from a
\* different cell to the target of move m
C16_Ambiguous(m) ==
    \E o \in Range(get_legal_moves(Self)) :
        /\ get(Self, o.source) = get(Self, m.source)
        /\ o.source # m.source
        /\ o.target = m.target

\* the text is the file, the rank or the name of the cell move m starts from
C16_NamesOrigin(text, m) ==
    text \in {<<get_file(m.source)>>, str(get_rank(m.source)), get_name(m.source)}

\* the player to move next is in check after move m
C16_GivesCheck(m) ==
    \E c \in {copy(Self)} : \E after \in {make_move(c, m)} : is_check(after)

\* the length of the SAN of the legal move m when nothing disambiguates it
C16_PlainLength(m) ==
    LET piece == get(Self, m.source)
        diagonal == get_file(m.target) # get_file(m.source)
        taking == get(Self, m.target) # None \/ (piece.type = "p" /\ diagonal)
    IN  (IF piece.type = "p" THEN 0 ELSE 1)
        + (IF taking THEN (IF piece.type = "p" THEN 2 ELSE 1) ELSE 0)
        + 2
        + (IF m.promotion # NoneStr THEN 2 ELSE 0)
        + (IF C16_GivesCheck(m) THEN 1 ELSE 0)
        + (IF piece.type = "p" /\ diagonal /\ get(Self, m.target) = None THEN 7 ELSE 0)

\* move m is a king's two-square move
C16_Castles(m) ==
    get(Self, m.source).type = "k" /\ Abs(get_x(m.target) - get_x(m.source)) = 2

\* C16: for every legal move the disambiguator that _get_disambiguator
\* returns, and that get_move_info puts into the SAN, is empty if and only if
\* no other legal move by a piece of the same type and color goes from a
\* different cell to the same target; if there is one, the disambiguator is
\* the file, the rank or the full name of the cell the move starts from.
C16_DisambiguatorIffAmbiguous ==
    /\ last.op = "_get_disambiguator" =>
           /\ last.text = <<>> <=> ~C16_Ambiguous(last.move)
           /\ C16_Ambiguous(last.move) => C16_NamesOrigin(last.text, last.move)
    /\ (last.op = "get_move_info" /\ ~last.raised /\ ~C16_Castles(last.move)) =>
           (Len(last.text) = C16_PlainLength(last.move) <=> ~C16_Ambiguous(last.move))

====
